---- MODULE Spec2Model ----
(***************************************************************************)
(* Workflow execution engine: polling scheduler, job queue, executor,      *)
(* step interpreter and action execution.                                  *)
(*                                                                         *)
(* Time is the wall clock in seconds.  The setInterval callback of         *)
(* startPolling fires at the multiples of 30 s; between two of them the    *)
(* clock is observed once more, half an interval later.  A null timestamp  *)
(* is written Null (0); the clock starts above 0.                          *)
(*                                                                         *)
(* Repository.save(entity) writes the loaded entity back: every column     *)
(* whose value differs from the stored row is updated, except columns      *)
(* whose value is undefined, which are skipped.  Repository.update(id, f)  *)
(* writes the named fields only.                                           *)
(***************************************************************************)
EXTENDS Integers, Sequences, FiniteSets, TLC

(* ---------------- bounds of the model ---------------- *)
NumWorkflows == 2
NumEvents == 2
MaxTicks == 1
MaxJobs == 2
MaxRetryJobs == 1
MaxSweeps == 2
MaxFaults == 3
MaxTemplateLen == 2
MaxMinute == 11
MaxTokens == 2
MaxRows == 2
MaxRequests == 2
MaxVisits == 3

(* ---------------- program constants ---------------- *)
SchedulerIntervalSec == 30
JobAttempts == 3
WorkerConcurrency == 5
DefaultPollingInterval == 60

Null == 0
Workflows == 1..NumWorkflows
Events == 1..NumEvents
SweepIds == 1..MaxSweeps

(* ---------------- credentials and the dispatcher ---------------- *)

\* The state of the (user, app) credential row as getValidToken sees it.
CredStates == {"none", "valid", "expired_refresh_ok", "expired_refresh_fail"}
\* Outcome of the third-party HTTP call made by an adapter.
NetStates == {"ok", "fail"}

\* getValidToken: threw = an UnauthorizedException is raised,
\* emails = notification emails sent, refreshed = a token refresh succeeded.
GetValidToken(cred) ==
    CASE cred = "none" -> [threw |-> TRUE, emails |-> 0, refreshed |-> FALSE]
      [] cred = "valid" -> [threw |-> FALSE, emails |-> 0, refreshed |-> FALSE]
      [] cred = "expired_refresh_ok" ->
            [threw |-> FALSE, emails |-> 0, refreshed |-> TRUE]
      [] OTHER -> [threw |-> TRUE, emails |-> 1, refreshed |-> FALSE]

\* callGmailAPI / callSlackAPI / callGitHubAPI for a non-cacheable (write)
\* method: resolve the token, then route to the adapter, whose HTTP call
\* throws on a transport or provider failure.
CallAPI(cred, net) ==
    LET t == GetValidToken(cred) IN
    IF t.threw
    THEN [threw |-> TRUE, calls |-> 0, emails |-> t.emails, reauth |-> cred = "expired_refresh_fail"]
    ELSE [threw |-> net = "fail", calls |-> 1, emails |-> 0, reauth |-> FALSE]

\* getUserAppMetadata: no credential row -> email the user and throw.
GetUserAppMetadata(cred) ==
    IF cred = "none"
    THEN [threw |-> TRUE, emails |-> 1]
    ELSE [threw |-> FALSE, emails |-> 0]

(* ---------------- action execution ---------------- *)

ActionIds == {"send_channel_message", "send_dm", "update_message",
              "add_reaction", "send_email", "reply_to_email",
              "add_label_to_email", "star_email", "create_issue",
              "add_comment_to_issue", "close_issue", "assign_issue",
              "send_webhook"}

\* Config keys whose presence executeAction tests.  A config is modelled as
\* the set of keys that hold a truthy value.
ConfigKeys == {"channel", "messageTs", "text", "reactionName", "to",
               "messageId", "threadId", "labelIds", "owner", "repo",
               "issue_number", "assignees", "url", "userId"}

ActionResult(status, calls, emails, reauth) ==
    [status |-> status, raised |-> FALSE, calls |-> calls,
     emails |-> emails, reauth |-> reauth]

\* The result of a case whose body is try { guard; call API } catch { failed }.
\* guardOk = the required-field test of the case passed.
GuardedCall(guardOk, cred, net) ==
    IF ~guardOk
    THEN ActionResult("failed", 0, 0, FALSE)
    ELSE LET r == CallAPI(cred, net) IN
         ActionResult(IF r.threw THEN "failed" ELSE "success",
                      r.calls, r.emails, r.reauth)

\* send_dm: without userId the installing user is read from the credential
\* metadata (hasMeta = metadata.authed_user.id is present).
SendDm(cfg, cred, net, hasMeta) ==
    IF "userId" \in cfg
    THEN GuardedCall(TRUE, cred, net)
    ELSE LET m == GetUserAppMetadata(cred) IN
         IF m.threw THEN ActionResult("failed", 0, m.emails, FALSE)
         ELSE IF ~hasMeta THEN ActionResult("failed", 0, 0, FALSE)
         ELSE GuardedCall(TRUE, cred, net)

\* send_webhook: axios call without any credential.
SendWebhook(cfg, net) ==
    IF "url" \notin cfg
    THEN ActionResult("failed", 0, 0, FALSE)
    ELSE ActionResult(IF net = "fail" THEN "failed" ELSE "success", 1, 0, FALSE)

\* executeAction(user, action, dataFromTrigger): every case catches what its
\* body throws and returns a result record.
ExecuteAction(actionId, cfg, cred, net, hasMeta) ==
    CASE actionId = "send_channel_message" -> GuardedCall(TRUE, cred, net)
      [] actionId = "send_dm" -> SendDm(cfg, cred, net, hasMeta)
      [] actionId = "update_message" -> ActionResult("success", 0, 0, FALSE)
      [] actionId = "add_reaction" -> ActionResult("success", 0, 0, FALSE)
      [] actionId = "send_email" -> GuardedCall("to" \in cfg, cred, net)
      [] actionId = "reply_to_email" ->
            GuardedCall({"messageId", "threadId"} \subseteq cfg, cred, net)
      [] actionId = "add_label_to_email" ->
            GuardedCall({"messageId", "labelIds"} \subseteq cfg, cred, net)
      [] actionId = "star_email" -> GuardedCall("messageId" \in cfg, cred, net)
      [] actionId = "create_issue" ->
            GuardedCall({"owner", "repo"} \subseteq cfg, cred, net)
      [] actionId \in {"add_comment_to_issue", "close_issue", "assign_issue"} ->
            GuardedCall({"owner", "repo", "issue_number"} \subseteq cfg, cred, net)
      [] actionId = "send_webhook" -> SendWebhook(cfg, net)
      [] OTHER -> ActionResult("failed", 0, 0, FALSE)

(* ---------------- workflow definitions and the step interpreter -------- *)

\* getPollingInterval: intervals[appName] || 60.  The table has the entries
\* gmail 60, slack 30, github 60 and webhook 0; a missing entry (undefined)
\* and the entry 0 are both falsy, so both give the default.
GetPollingInterval(app) ==
    LET intervals == [gmail |-> 60, slack |-> 30, github |-> 60, webhook |-> 0]
    IN  IF app \in DOMAIN intervals /\ intervals[app] # 0
        THEN intervals[app]
        ELSE DefaultPollingInterval

\* The workflow definitions the engine is run on.  cond = "none": step "2"
\* is the action.  cond = "if": step "2" is a condition with the single
\* clause {if: "{{trigger.from}} contains '@important.com'", then: "3"} and
\* step "3" is the action.
WorkflowDefs ==
    { [triggerApp |-> "gmail", triggerId |-> "new_email", cond |-> "if",
       actionId |-> "send_channel_message", cfg |-> {"channel", "text"}],
      [triggerApp |-> "slack", triggerId |-> "new_channel_message",
       cond |-> "none", actionId |-> "reply_to_email", cfg |-> {"messageId"}] }

\* The payload of external event e: events with an odd id come from
\* '@important.com'.
Important(e) == e % 2 = 1

\* A condition that takes its then-target whatever the payload.
EvaluateConditionAlwaysThen(def, e) == "3"

\* evaluateCondition: the then-target of the first matching if clause, the
\* else-target, or null ("null").
EvaluateCondition(def, e) ==
    IF Important(e) THEN "3" ELSE "null"

\* What the environment decides during one attempt: the credential row, the
\* outcome of the third-party call, the credential metadata and whether the
\* log writes of the interpreter succeed.
LogStates == {"ok", "fail_before", "fail_after"}
Envs == [cred : CredStates, net : NetStates, hasMeta : BOOLEAN, log : LogStates]

StepsResult(raised, log, calls, emails, reauth) ==
    [raised |-> raised, log |-> log, calls |-> calls, emails |-> emails,
     reauth |-> reauth]

\* The action branch of executeWorkflowSteps for the step with id sid:
\* log action_started, executeAction, log action_completed, push the entry.
\* A throw of executeAction or of the log write is re-raised.
RunActionStep(def, sid, prefix, env) ==
    LET r == ExecuteAction(def.actionId, def.cfg, env.cred, env.net, env.hasMeta) IN
    IF r.raised \/ env.log = "fail_after"
    THEN StepsResult(TRUE, prefix, r.calls, r.emails, r.reauth)
    ELSE StepsResult(FALSE,
                     Append(prefix, [stepId |-> sid, type |-> "action",
                                     result |-> r.status]),
                     r.calls, r.emails, r.reauth)

\* executeWorkflowSteps, started at step "2".
ExecuteWorkflowSteps(def, e, env) ==
    IF def.cond = "none"
    THEN RunActionStep(def, "2", <<>>, env)
    ELSE LET next == EvaluateCondition(def, e)
             entry == [stepId |-> "2", type |-> "condition", result |-> next] IN
         IF next = "null"
         THEN StepsResult(FALSE, <<entry>>, 0, 0, FALSE)
         ELSE RunActionStep(def, next, <<entry>>, env)

\* executeWorkflow: log workflow_execution_started, run the steps, log the
\* outcome; whatever is thrown is re-raised to the processor.
ExecuteWorkflow(def, e, env) ==
    IF env.log = "fail_before"
    THEN StepsResult(TRUE, <<>>, 0, 0, FALSE)
    ELSE ExecuteWorkflowSteps(def, e, env)

(* ---------------- state ---------------- *)

VARIABLES
    clock,      \* wall clock, seconds
    defs,       \* workflow id -> its definition (steps)
    wf,         \* workflow rows: exists, isActive, lastRunAt, pollingInterval
    inbox,      \* number of external events the provider holds (1..inbox)
    processed,  \* ProcessedTrigger rows, in the order they were inserted
    jobs,       \* the queue's jobs, in the order they were added
    runs,       \* WorkflowRun rows, in the order they were created
    sweeps,     \* the invocations of pollWorkflows
    toggle,     \* the activate / deactivate call in progress
    faults,     \* database / log writes that have failed so far
    quiet,      \* workflow id -> deactivate returned, no activate since
    act,        \* the executeAction call under study: input and result
    deduped,    \* workflow id -> a sweep's filter has dropped every item
                \* the detector returned for it
    tpl,        \* the template substitution under study: input and output
    minute,     \* the dispatcher's wall clock, minutes
    cred,       \* app -> the user's UserApp row
    cache,      \* cache key -> the entry the cache service holds, if any
    call,       \* the dispatcher call in progress
    refreshLogs, \* number of token_refreshed log entries
    table,      \* the user's Workflow rows as create and update see them
    pend,       \* the create / update requests in progress
    interp,     \* the executeWorkflowSteps call under study
    retention   \* the cleanup timer under study: the day, the rows' dates

\* The variables of the integration dispatcher.
dispatcher == <<minute, cred, cache, call, refreshLogs>>

\* The calls studied on their own.
\* The variables of workflow create / update.
editor == <<table, pend>>

study == <<act, tpl, dispatcher, editor, interp, retention>>

\* The variables the engine's actions, PollCheck apart, leave alone.
pure == <<study, deduped>>

\* The variables of the engine.
engine == <<clock, defs, wf, inbox, processed, jobs, runs, sweeps,
            toggle, faults, quiet, deduped>>

vars == <<engine, study>>

\* What an attempt's executeWorkflow call did, kept with the job while the
\* attempt lasts: third-party calls made, emails sent, refresh failed, the
\* third-party call failed, the action result's status.
NoEffect == [calls |-> 0, emails |-> 0, reauth |-> FALSE, callFailed |-> FALSE]
NoTpl == [template |-> <<>>, payload |-> <<>>, done |-> FALSE, out |-> <<>>]
NoAct == [actionId |-> "none", cfg |-> {}, cred |-> "valid", net |-> "ok",
          hasMeta |-> FALSE, done |-> FALSE,
          result |-> ActionResult("failed", 0, 0, FALSE)]
\* done lists, while the sweep runs, the workflows it has checked and what
\* came of each check: "skipped" (not due), "failed" (the detector raised),
\* "empty" (nothing unprocessed) or "fired".
IdleSweep == [pc |-> "idle", tick |-> Null, todo |-> <<>>, now |-> Null,
              trig |-> Null, done |-> <<>>]
NoSnap == [exists |-> FALSE, isActive |-> FALSE, lastRunAt |-> Null,
           pollingInterval |-> Null]
IdleToggle == [pc |-> "idle", op |-> "none", w |-> Null, snap |-> NoSnap]

\* The apps and methods the dispatcher is called with: two cacheable
\* methods with different lifetimes and one write.
DispApps == {"gmail", "slack"}
DispCalls == {<<"gmail", "listLabels">>, <<"gmail", "sendEmail">>,
              <<"slack", "getCurrentUser">>}
CacheKeys == {c \in DispCalls : c[2] \in {"listLabels", "getCurrentUser"}}

\* The expires_in a provider answers a token request with, minutes.
ExpiresIn == {2, 6}

NoEntry == [present |-> FALSE, app |-> "none", method |-> "none",
            storedAt |-> Null, ttl |-> Null]
IdleCall == [pc |-> "idle", app |-> "none", method |-> "none",
             noRow |-> FALSE, wasExpired |-> FALSE, refreshOk |-> FALSE,
             refreshed |-> FALSE,
             oldToken |-> Null, token |-> Null, lookedUp |-> FALSE,
             hadEntry |-> FALSE, entryAge |-> Null, fromCache |-> FALSE, adapterCalled |-> FALSE,
             error |-> "none", at |-> Null, result |-> NoEntry]

\* The user has connected both apps: the gmail token expires, the slack
\* token does not (expiresAt is null).  Tokens are numbered from 1.
DispatcherInit(E) ==
    /\ minute = 1
    /\ \E e \in E :
          cred = [a \in DispApps |->
                    [exists |-> TRUE, token |-> 1,
                     expiresAt |-> IF a = "gmail" THEN minute + e ELSE Null]]
    /\ cache = [c \in CacheKeys |-> NoEntry]
    /\ call = IdleCall
    /\ refreshLogs = 0

\* The dispatcher's state in the specifications that never call it.
DispatcherAtRest == DispatcherInit({CHOOSE e \in ExpiresIn : TRUE})

\* create() followed by activateWorkflow(): active, never run; main.ts has
\* called startPolling(), whose immediate pollWorkflows() is sweep 1.
(* ---------------- workflow create / update: data ---------------- *)

\* A step of the steps array the front end sends.  An absent or null
\* target is "null", an absent if string is "none".
Clause(if, then, else) == [if |-> if, then |-> then, else |-> else]
TriggerStep(id) ==
    [id |-> id, type |-> "trigger", conditions |-> <<>>, next |-> "null"]
ConditionStep(id, conditions) ==
    [id |-> id, type |-> "condition", conditions |-> conditions, next |-> "null"]
ActionStep(id, next) ==
    [id |-> id, type |-> "action", conditions |-> <<>>, next |-> next]

\* The steps arrays a request body carries.
StepLists ==
    { <<>>,
      <<TriggerStep("1")>>,
      <<TriggerStep("1"), ActionStep("2", "null")>>,
      <<TriggerStep("1"), ActionStep("2", "7")>>,
      <<TriggerStep("1"),
        ConditionStep("2", <<Clause("contains", "3", "null"),
                             Clause("none", "null", "null")>>),
        ActionStep("3", "null")>>,
      <<TriggerStep("1"),
        ConditionStep("2", <<Clause("contains", "9", "null"),
                             Clause("none", "null", "3")>>),
        ActionStep("3", "null")>> }

\* workflowName / name in a request body; "" is a missing name.
Names == {"", "a", "b"}

RequestIds == 1..MaxRequests
IdleRequest == [pc |-> "idle", op |-> "none", name |-> "", steps |-> <<>>,
                id |-> Null, saved |-> Null]

NoInterp == [steps |-> <<>>, value |-> [t |-> "undefined", s |-> "undefined"],
             pc |-> "idle", current |-> "null", log |-> <<>>, pass |-> 0]

\* The cleanup timer's view of the store: the day, the processedAt days of
\* the ProcessedTrigger rows, the createdAt days of the Log rows and the
\* parity of the number of times the timer's callback has run.
NoRetention == [day |-> 0, triggers |-> {}, logs |-> {}, cleanups |-> 0]

EditorAtRest ==
    /\ table = <<>>
    /\ pend = [r \in RequestIds |-> IdleRequest]

\* The engine at its start with the workflows of A created and activated;
\* the other ids have no row.
EngineInitOn(A) ==
    /\ clock = SchedulerIntervalSec
    /\ defs \in [Workflows -> WorkflowDefs]
    /\ \A w \in Workflows \ A : defs[w] = CHOOSE d \in WorkflowDefs : TRUE
    /\ wf = [w \in Workflows |->
               IF w \in A
               THEN [exists |-> TRUE, isActive |-> TRUE, lastRunAt |-> Null,
                     pollingInterval |-> GetPollingInterval(defs[w].triggerApp)]
               ELSE NoSnap]
    /\ inbox = 0
    /\ processed = <<>>
    /\ jobs = <<>>
    /\ runs = <<>>
    /\ sweeps = [s \in SweepIds |->
                   IF s = 1
                   THEN [IdleSweep EXCEPT !.pc = "find",
                                          !.tick = SchedulerIntervalSec]
                   ELSE IdleSweep]
    /\ toggle = IdleToggle
    /\ faults = 0
    /\ quiet = [w \in Workflows |-> FALSE]
    /\ deduped = [w \in Workflows |-> FALSE]

\* The engine with one workflow.
EngineInit == EngineInitOn({1})

Init ==
    /\ EngineInit
    /\ DispatcherAtRest
    /\ EditorAtRest
    /\ interp = NoInterp
    /\ retention = NoRetention
    /\ act = NoAct
    /\ tpl = NoTpl

(* ---------------- the provider ---------------- *)

\* A new external event appears at the provider.
Arrive ==
    /\ inbox < NumEvents
    /\ inbox' = inbox + 1
    /\ UNCHANGED <<clock, defs, wf, processed, jobs, runs, sweeps,
                   toggle, quiet, faults, pure>>

\* The lists the provider's API may return for n events: in any order.
Listings(n) ==
    {l \in [1..n -> 1..n] : \A i, k \in 1..n : l[i] = l[k] => i = k}

\* The timestamp of event e: events arrive one after the other.
Timestamp(e) == e

\* A detector that returns the provider's list as it came.
ProviderOrder(list) == list

RECURSIVE SortNewestFirst(_)
\* The detector's sort: by timestamp, newest first.
SortNewestFirst(list) ==
    IF list = <<>> THEN <<>>
    ELSE LET i == CHOOSE i \in 1..Len(list) :
                     \A k \in 1..Len(list) :
                         Timestamp(list[i]) >= Timestamp(list[k])
             rest == [k \in 1..(Len(list) - 1) |->
                         IF k < i THEN list[k] ELSE list[k + 1]] IN
         <<list[i]>> \o SortNewestFirst(rest)

(* ---------------- scheduler ---------------- *)

\* A workflow that is always due.
AlwaysDue(row) == 0

\* calculateNextRunAt: epoch 0 when never run, else lastRunAt + interval.
CalculateNextRunAt(row) ==
    IF row.lastRunAt = Null
    THEN 0
    ELSE row.lastRunAt +
         (IF row.pollingInterval = 0 THEN DefaultPollingInterval
          ELSE row.pollingInterval)

ProcessedKey(w, t, e) == [workflowId |-> w, triggerType |-> t, externalId |-> e]

\* A filter that drops nothing.
FilterNothing(w, t, items) == items

\* filterUnprocessed: drop the items whose external id has a row.
FilterUnprocessed(w, t, items) ==
    LET processedIds == {processed[i].externalId :
                            i \in {k \in DOMAIN processed :
                                      /\ processed[k].workflowId = w
                                      /\ processed[k].triggerType = t}} IN
    SelectSeq(items, LAMBDA e : e \notin processedIds)

\* The rows `find({isActive: true})` returns, in id order.
RECURSIVE ActiveFrom(_)
ActiveFrom(w) ==
    IF w > NumWorkflows THEN <<>>
    ELSE (IF wf[w].exists /\ wf[w].isActive
          THEN <<[id |-> w, lastRunAt |-> wf[w].lastRunAt,
                  pollingInterval |-> wf[w].pollingInterval]>>
          ELSE <<>>) \o ActiveFrom(w + 1)

\* A sweep that checks the head of its list again.
SweepStays(s) ==
    [sweeps EXCEPT ![s].pc = "next", ![s].now = Null, ![s].trig = Null]

\* A sweep that ends at the first workflow it does not fire for.
SweepAbort(s) == [sweeps EXCEPT ![s] = IdleSweep]

\* The sweep is done with the head of its list.
SweepAdvance(s) ==
    LET rest == Tail(sweeps[s].todo) IN
    [sweeps EXCEPT ![s] = IF rest = <<>> THEN IdleSweep
                          ELSE [pc |-> "next", tick |-> sweeps[s].tick,
                                todo |-> rest, now |-> Null, trig |-> Null,
                                done |-> sweeps[s].done]]

\* The setInterval callback of startPolling fires at the next multiple of
\* the interval and calls pollWorkflows(), whatever the earlier sweeps are
\* doing.
TickWithin(s, max) ==
    /\ clock < SchedulerIntervalSec * (max + 1)
    /\ sweeps[s].pc = "idle"
    /\ \A r \in SweepIds : r < s => sweeps[r].pc # "idle"
    /\ clock' = (clock \div SchedulerIntervalSec + 1) * SchedulerIntervalSec
    /\ sweeps' = [sweeps EXCEPT ![s].pc = "find", ![s].tick = clock']
    /\ UNCHANGED <<defs, wf, inbox, processed, jobs, runs, toggle, quiet, faults, pure>>

Tick(s) == TickWithin(s, MaxTicks)

\* Time passes between two firings of the interval.
TimePasses ==
    /\ clock % SchedulerIntervalSec = 0
    /\ clock' = clock + SchedulerIntervalSec \div 2
    /\ UNCHANGED <<defs, wf, inbox, processed, jobs, runs, sweeps, toggle,
                   quiet, faults, pure>>

\* pollWorkflows: the query for the active workflows returns.
PollFind(s) ==
    /\ sweeps[s].pc = "find"
    /\ LET rows == ActiveFrom(1) IN
       sweeps' = [sweeps EXCEPT ![s] =
                    IF rows = <<>> THEN IdleSweep
                    ELSE [pc |-> "next", tick |-> sweeps[s].tick,
                          todo |-> rows, now |-> Null, trig |-> Null,
                          done |-> <<>>]]
    /\ UNCHANGED <<clock, defs, wf, inbox, processed, jobs, runs,
                   toggle, quiet, faults, pure>>

\* checkAndTriggerWorkflow up to the result of checkTrigger.  fetchOk = the
\* detector's API call succeeded (a failure is caught and yields no items);
\* listed = the provider's list.
PollCheck(s, fetchOk, listed) ==
    /\ sweeps[s].pc = "next"
    /\ LET row == Head(sweeps[s].todo)
           t == defs[row.id].triggerId
           items == IF fetchOk THEN SortNewestFirst(listed) ELSE <<>>
           unprocessed == FilterUnprocessed(row.id, t, items)
           outcome == IF CalculateNextRunAt(row) > clock THEN "skipped"
                      ELSE IF ~fetchOk THEN "failed"
                      ELSE IF unprocessed = <<>> THEN "empty" ELSE "fired"
           done == Append(sweeps[s].done, [id |-> row.id, outcome |-> outcome])
           moved == SweepAdvance(s) IN
       /\ IF CalculateNextRunAt(row) > clock \/ unprocessed = <<>>
          THEN sweeps' = IF moved[s].pc = "idle" THEN moved
                         ELSE [moved EXCEPT ![s].done = done]
          ELSE sweeps' = [sweeps EXCEPT ![s].pc = "fired", ![s].now = clock,
                                        ![s].trig = Head(unprocessed),
                                        ![s].done = done]
       /\ deduped' = IF /\ CalculateNextRunAt(row) <= clock
                        /\ items # <<>> /\ unprocessed = <<>>
                     THEN [deduped EXCEPT ![row.id] = TRUE]
                     ELSE deduped
    /\ UNCHANGED <<clock, defs, wf, inbox, processed, jobs, runs,
                   toggle, quiet, faults, study>>

\* addWorkflowJob: a new waiting job that has made no attempt.  tries counts
\* the times a worker has taken the job; tick is the firing of the interval
\* whose sweep added it.
NewJob(w, t, e, tick) ==
    [workflowId |-> w, triggerId |-> t, externalId |-> e, attemptsMade |-> 0,
     tick |-> tick, tries |-> 0, state |-> "waiting", pc |-> "none", snap |-> NoSnap, runId |-> Null,
     res |-> NoEffect]

\* An enqueue step that writes lastRunAt also when nothing was queued.
PollEnqueueStampsAnyway(s, logOk, cap) ==
    /\ sweeps[s].pc = "fired"
    /\ (~logOk) => faults < MaxFaults
    /\ faults' = IF ~logOk THEN faults + 1 ELSE faults
    /\ LET row == Head(sweeps[s].todo) IN
       IF logOk
       THEN /\ Len(jobs) < cap
            /\ jobs' = Append(jobs, NewJob(row.id, defs[row.id].triggerId,
                                           sweeps[s].trig, sweeps[s].tick))
            /\ sweeps' = [sweeps EXCEPT ![s].pc = "queued"]
            /\ wf' = wf
       ELSE /\ jobs' = jobs
            /\ sweeps' = SweepAdvance(s)
            /\ wf' = [wf EXCEPT ![row.id].lastRunAt = sweeps[s].now]
    /\ UNCHANGED <<clock, defs, inbox, processed, runs, toggle, quiet, pure>>

\* checkAndTriggerWorkflow after the trigger fired: log trigger_fired and add
\* the job.  A failing log write is caught: nothing is queued.  cap bounds
\* the jobs the model lets the queue hold.
PollEnqueue(s, logOk, cap) ==
    /\ sweeps[s].pc = "fired"
    /\ (~logOk) => faults < MaxFaults
    /\ faults' = IF ~logOk THEN faults + 1 ELSE faults
    /\ LET row == Head(sweeps[s].todo) IN
       IF logOk
       THEN /\ Len(jobs) < cap
            /\ jobs' = Append(jobs, NewJob(row.id, defs[row.id].triggerId,
                                           sweeps[s].trig, sweeps[s].tick))
            /\ sweeps' = [sweeps EXCEPT ![s].pc = "queued"]
       ELSE /\ jobs' = jobs
            /\ sweeps' = SweepAdvance(s)
    /\ UNCHANGED <<clock, defs, wf, inbox, processed, runs, toggle, quiet, pure>>

\* workflowRepo.update(id, {lastRunAt: now}) with the now captured when the
\* check of this workflow began.
PollUpdate(s) ==
    /\ sweeps[s].pc = "queued"
    /\ LET row == Head(sweeps[s].todo) IN
       wf' = [wf EXCEPT ![row.id].lastRunAt = sweeps[s].now]
    /\ sweeps' = SweepAdvance(s)
    /\ UNCHANGED <<clock, defs, inbox, processed, jobs, runs, toggle, quiet, faults, pure>>

(* ---------------- executor ---------------- *)

\* BullMQ after the processor threw: the attempt is counted; the job is
\* delayed for its backoff, or failed for good after the last attempt.
JobAfterThrow(job) ==
    [job EXCEPT !.attemptsMade = job.attemptsMade + 1,
                !.state = IF job.attemptsMade + 1 < JobAttempts
                          THEN "delayed" ELSE "failed",
                !.pc = "none", !.snap = NoSnap, !.runId = Null,
                !.res = NoEffect]

\* A row whose retryCount is the number the failure handler writes,
\* attemptsMade + 1, instead of attemptsMade.
NewRunCountsFromOne(j, job) ==
    [workflowId |-> job.workflowId, jobId |-> j, attempt |-> job.tries,
     triggerId |-> job.triggerId, externalId |-> job.externalId,
     status |-> "running", retryCount |-> job.attemptsMade + 1, error |-> FALSE,
     finishedAt |-> Null, executionLog |-> <<>>, failLogged |-> FALSE,
     startedLogged |-> FALSE, completedLogged |-> FALSE]

\* The row processWorkflow creates: status running, retryCount = attemptsMade.
\* jobId and attempt tell which job, and which of its attempts (counted from
\* 0), created the row; startedLogged, completedLogged and failLogged = a
\* workflow_execution_started, _completed or _failed entry of the run has
\* been written to the log.
NewRun(j, job) ==
    [workflowId |-> job.workflowId, jobId |-> j, attempt |-> job.tries,
     triggerId |-> job.triggerId, externalId |-> job.externalId,
     status |-> "running", retryCount |-> job.attemptsMade, error |-> FALSE,
     finishedAt |-> Null, executionLog |-> <<>>, failLogged |-> FALSE,
     startedLogged |-> FALSE, completedLogged |-> FALSE]

ActiveJobs == {j \in 1..Len(jobs) : jobs[j].state = "active"}

\* processWorkflow up to the try block: a worker takes a waiting job (or a
\* delayed one whose backoff has passed), loads the workflow and the user,
\* saves the run row and logs workflow_execution_started.  out = "save_fails":
\* the insert of the run throws; out = "log_fails": the log write throws
\* after the row was saved.  Both are thrown to the queue, and so is the
\* Error raised when findOne returns no workflow, before any write.
WorkerStart(j, out) ==
    /\ jobs[j].state \in {"waiting", "delayed"}
    /\ Cardinality(ActiveJobs) < WorkerConcurrency
    /\ (out # "ok") => faults < MaxFaults /\ wf[jobs[j].workflowId].exists
    /\ faults' = IF out # "ok" THEN faults + 1 ELSE faults
    /\ LET job == [jobs[j] EXCEPT !.tries = jobs[j].tries + 1] IN
       IF out = "save_fails" \/ ~wf[jobs[j].workflowId].exists
       THEN /\ jobs' = [jobs EXCEPT ![j] = JobAfterThrow(job)]
            /\ runs' = runs
       ELSE /\ runs' = Append(runs, [NewRun(j, jobs[j]) EXCEPT
                                       !.startedLogged = (out = "ok")])
            /\ jobs' = [jobs EXCEPT ![j] =
                 IF out = "log_fails"
                 THEN JobAfterThrow(job)
                 ELSE [job EXCEPT !.state = "active", !.pc = "exec",
                                  !.snap = wf[job.workflowId],
                                  !.runId = Len(runs) + 1]]
    /\ UNCHANGED <<clock, defs, wf, inbox, processed, sweeps, toggle, quiet, pure>>

\* A try block that derives the run's status from the statuses its actions
\* returned.
WorkerExecuteJudgesActions(j, env) ==
    /\ jobs[j].state = "active" /\ jobs[j].pc = "exec"
    /\ (env.log # "ok") => faults < MaxFaults
    /\ faults' = IF env.log # "ok" THEN faults + 1 ELSE faults
    /\ LET job == jobs[j]
           res == ExecuteWorkflow(defs[job.workflowId], job.externalId, env)
           bad == \E i \in DOMAIN res.log : res.log[i].result = "failed" IN
       /\ jobs' = [jobs EXCEPT
                     ![j].pc = IF res.raised THEN "catch" ELSE "post",
                     ![j].res = [calls |-> res.calls, emails |-> res.emails,
                                 reauth |-> res.reauth,
                                 callFailed |-> res.calls > 0 /\ env.net = "fail"]]
       /\ IF res.raised
          THEN runs' = runs
          ELSE runs' = [runs EXCEPT ![job.runId].status =
                                          IF bad THEN "failed" ELSE "success",
                                       ![job.runId].finishedAt = clock,
                                       ![job.runId].executionLog = res.log,
                                       ![job.runId].completedLogged = TRUE]
    /\ UNCHANGED <<clock, defs, wf, inbox, processed, sweeps, toggle, quiet, pure>>

\* The try block up to the save of the success status: executeWorkflow,
\* which logs workflow_execution_completed before it returns, then status =
\* success, finishedAt, executionLog.  A throw goes to catch.
WorkerExecute(j, env) ==
    /\ jobs[j].state = "active" /\ jobs[j].pc = "exec"
    /\ (env.log # "ok") => faults < MaxFaults
    /\ faults' = IF env.log # "ok" THEN faults + 1 ELSE faults
    /\ LET job == jobs[j]
           res == ExecuteWorkflow(defs[job.workflowId], job.externalId, env) IN
       /\ jobs' = [jobs EXCEPT
                     ![j].pc = IF res.raised THEN "catch" ELSE "post",
                     ![j].res = [calls |-> res.calls, emails |-> res.emails,
                                 reauth |-> res.reauth,
                                 callFailed |-> res.calls > 0 /\ env.net = "fail"]]
       /\ IF res.raised
          THEN runs' = runs
          ELSE runs' = [runs EXCEPT ![job.runId].status = "success",
                                       ![job.runId].finishedAt = clock,
                                       ![job.runId].executionLog = res.log,
                                       ![job.runId].completedLogged = TRUE]
    /\ UNCHANGED <<clock, defs, wf, inbox, processed, sweeps, toggle, quiet, pure>>

\* After the success save: log workflow_execution_completed, then
\* workflow.lastRunAt = new Date() and save(workflow), the entity loaded when
\* the attempt began.  ok = FALSE: one of the two writes throws, which lands
\* in the catch block of the same try.
WorkerPost(j, ok) ==
    /\ jobs[j].state = "active" /\ jobs[j].pc = "post"
    /\ (~ok) => faults < MaxFaults
    /\ faults' = IF ~ok THEN faults + 1 ELSE faults
    /\ IF ok
       THEN /\ wf' = [wf EXCEPT ![jobs[j].workflowId] =
                        [jobs[j].snap EXCEPT !.lastRunAt = clock]]
            /\ jobs' = [jobs EXCEPT ![j].pc = "record"]
       ELSE /\ wf' = wf
            /\ jobs' = [jobs EXCEPT ![j].pc = "catch"]
    /\ UNCHANGED <<clock, defs, inbox, processed, runs, sweeps,
                   toggle, quiet, pure>>

\* An insert into a table that has no unique index.
InsertWithoutIndex(rows, row) == Append(rows, row)

\* An insert that stores nothing.
InsertNothing(rows, row) == rows

\* processedTriggerRepo.save of a new row under the unique index on
\* (workflow, triggerType, externalId): a duplicate key is rejected and the
\* caller swallows the error.
InsertProcessed(rows, row) ==
    IF \E i \in DOMAIN rows : rows[i] = row THEN rows ELSE Append(rows, row)

\* Insert the ProcessedTrigger row (a unique violation is swallowed) and
\* return: the job is completed and evicted from the queue.
WorkerRecord(j) ==
    /\ jobs[j].state = "active" /\ jobs[j].pc = "record"
    /\ processed' = InsertProcessed(processed,
          ProcessedKey(jobs[j].workflowId, jobs[j].triggerId, jobs[j].externalId))
    /\ jobs' = [jobs EXCEPT ![j].state = "completed", ![j].pc = "none",
                            ![j].snap = NoSnap, ![j].runId = Null,
                            ![j].res = NoEffect]
    /\ UNCHANGED <<clock, defs, wf, inbox, runs, sweeps, toggle, quiet, faults, pure>>

\* A catch block that does not re-throw: the job completes.
WorkerCatchSwallows(j) ==
    /\ jobs[j].state = "active" /\ jobs[j].pc = "catch"
    /\ runs' = [runs EXCEPT ![jobs[j].runId].status = "failed",
                            ![jobs[j].runId].error = TRUE,
                            ![jobs[j].runId].finishedAt = clock,
                            ![jobs[j].runId].retryCount = jobs[j].attemptsMade + 1,
                            ![jobs[j].runId].failLogged = TRUE]
    /\ jobs' = [jobs EXCEPT ![j].state = "completed", ![j].pc = "none",
                            ![j].snap = NoSnap, ![j].runId = Null,
                            ![j].res = NoEffect]
    /\ UNCHANGED <<clock, defs, wf, inbox, processed, sweeps, toggle, quiet, faults, pure>>

\* A catch block that also records the event as processed.
WorkerCatchRecords(j) ==
    /\ jobs[j].state = "active" /\ jobs[j].pc = "catch"
    /\ runs' = [runs EXCEPT ![jobs[j].runId].status = "failed",
                            ![jobs[j].runId].error = TRUE,
                            ![jobs[j].runId].finishedAt = clock,
                            ![jobs[j].runId].retryCount = jobs[j].attemptsMade + 1,
                            ![jobs[j].runId].failLogged = TRUE]
    /\ processed' = InsertProcessed(processed,
          ProcessedKey(jobs[j].workflowId, jobs[j].triggerId, jobs[j].externalId))
    /\ jobs' = [jobs EXCEPT ![j] = JobAfterThrow(jobs[j])]
    /\ UNCHANGED <<clock, defs, wf, inbox, sweeps, toggle, quiet, faults, pure>>

\* The catch block: status = failed, error, finishedAt, retryCount =
\* attemptNumber + 1, log, re-throw to the queue.
WorkerCatch(j) ==
    /\ jobs[j].state = "active" /\ jobs[j].pc = "catch"
    /\ runs' = [runs EXCEPT ![jobs[j].runId].status = "failed",
                            ![jobs[j].runId].error = TRUE,
                            ![jobs[j].runId].finishedAt = clock,
                            ![jobs[j].runId].retryCount = jobs[j].attemptsMade + 1,
                            ![jobs[j].runId].failLogged = TRUE]
    /\ jobs' = [jobs EXCEPT ![j] = JobAfterThrow(jobs[j])]
    /\ UNCHANGED <<clock, defs, wf, inbox, processed, sweeps, toggle, quiet, faults, pure>>

(* ---------------- activate / deactivate ---------------- *)

\* toggleWorkflow -> activateWorkflow / deactivateWorkflow: findOne.
ToggleCall(op, w) ==
    /\ toggle.pc = "idle"
    /\ wf[w].exists
    /\ toggle' = [pc |-> "loaded", op |-> op, w |-> w, snap |-> wf[w]]
    /\ quiet' = IF op = "activate" THEN [quiet EXCEPT ![w] = FALSE] ELSE quiet
    /\ UNCHANGED <<clock, defs, wf, inbox, processed, jobs, runs, sweeps, faults, pure>>

\* activateWorkflow: isActive = true, pollingInterval from the trigger's
\* app; lastRunAt is set to undefined, which save() leaves out of the
\* update, so the stored value stays.
ActivateSave ==
    /\ toggle.pc = "loaded" /\ toggle.op = "activate"
    /\ wf' = [wf EXCEPT ![toggle.w] =
                [exists |-> TRUE, isActive |-> TRUE,
                 pollingInterval |-> GetPollingInterval(defs[toggle.w].triggerApp),
                 lastRunAt |-> wf[toggle.w].lastRunAt]]
    /\ toggle' = [toggle EXCEPT !.pc = "saved"]
    /\ UNCHANGED <<clock, defs, inbox, processed, jobs, runs, sweeps, quiet, faults, pure>>

\* deactivateWorkflow: isActive = false and save(workflow), the entity
\* loaded by findOne.  The queue is not touched.
DeactivateSave ==
    /\ toggle.pc = "loaded" /\ toggle.op = "deactivate"
    /\ wf' = [wf EXCEPT ![toggle.w] = [toggle.snap EXCEPT !.isActive = FALSE]]
    /\ toggle' = [toggle EXCEPT !.pc = "saved"]
    /\ UNCHANGED <<clock, defs, inbox, processed, jobs, runs, sweeps, quiet, faults, pure>>

\* The log write after the save, then the call returns.
ToggleReturn ==
    /\ toggle.pc = "saved"
    /\ quiet' = IF toggle.op = "deactivate"
                THEN [quiet EXCEPT ![toggle.w] = TRUE] ELSE quiet
    /\ toggle' = IdleToggle
    /\ UNCHANGED <<clock, defs, wf, inbox, processed, jobs, runs, sweeps, faults, pure>>

(* ---------------- the engine ---------------- *)

\* The scheduler with the sweeps of S; L = the outcomes of its log writes.
SchedulerOn(S, cap, L) ==
    \/ Arrive
    \/ TimePasses
    \/ \E s \in S : Tick(s)
    \/ \E s \in S : PollFind(s)
    \/ \E s \in S, ok \in BOOLEAN, l \in Listings(inbox) : PollCheck(s, ok, l)
    \/ \E s \in S, logOk \in L : PollEnqueue(s, logOk, cap)
    \/ \E s \in S : PollUpdate(s)

\* The environments the engine's workflows are run in (none of them has a
\* send_dm action, the only reader of the credential metadata).
EngineEnvs == {env \in Envs : env.hasMeta}

\* The executor while every database and log write succeeds.
ExecutorOk ==
    \/ \E j \in 1..Len(jobs) : WorkerStart(j, "ok")
    \/ \E j \in 1..Len(jobs), env \in EngineEnvs :
          env.log = "ok" /\ WorkerExecute(j, env)
    \/ \E j \in 1..Len(jobs) : WorkerPost(j, TRUE)
    \/ \E j \in 1..Len(jobs) : WorkerRecord(j)

\* The executor with failing database and log writes.
Executor ==
    \/ \E j \in 1..Len(jobs), out \in {"ok", "save_fails", "log_fails"} :
          WorkerStart(j, out)
    \/ \E j \in 1..Len(jobs), env \in EngineEnvs : WorkerExecute(j, env)
    \/ \E j \in 1..Len(jobs), ok \in BOOLEAN : WorkerPost(j, ok)
    \/ \E j \in 1..Len(jobs) : WorkerRecord(j)
    \/ \E j \in 1..Len(jobs) : WorkerCatch(j)

Toggles ==
    \/ \E op \in {"activate", "deactivate"}, w \in Workflows : ToggleCall(op, w)
    \/ ActivateSave
    \/ DeactivateSave
    \/ ToggleReturn

\* Scheduler, queue and executor; a sweep ends before the next one starts
\* and no database write fails.
Next ==
    \/ SchedulerOn({1}, MaxJobs, {TRUE})
    \/ ExecutorOk

Spec == Init /\ [][Next]_vars

\* The engine with failing database and log writes.
NextRetry ==
    \/ SchedulerOn({1}, MaxRetryJobs, BOOLEAN)
    \/ Executor

SpecRetry == Init /\ [][NextRetry]_vars

\* remove: findOne, deactivateWorkflow, then workflowsRepo.remove; the
\* runs and the ProcessedTrigger rows of the workflow go with it (onDelete
\* CASCADE).  The jobs of the queue are not touched.  The removal is taken
\* while no attempt is in progress.
RemoveWorkflow(w) ==
    /\ wf[w].exists
    /\ toggle.pc = "idle"
    /\ ActiveJobs = {}
    /\ wf' = [wf EXCEPT ![w] = [@ EXCEPT !.exists = FALSE, !.isActive = FALSE]]
    /\ runs' = SelectSeq(runs, LAMBDA row : row.workflowId # w)
    /\ processed' = SelectSeq(processed, LAMBDA row : row.workflowId # w)
    /\ UNCHANGED <<clock, defs, inbox, jobs, sweeps, toggle, quiet, faults, pure>>

\* The engine with the user removing the workflow.
NextRemove ==
    \/ Next
    \/ \E w \in Workflows : RemoveWorkflow(w)

SpecRemove == Init /\ [][NextRemove]_vars

\* The scheduler alone on two workflows, one sweep after the other.
InitPoll ==
    /\ EngineInitOn(Workflows)
    /\ DispatcherAtRest
    /\ EditorAtRest
    /\ interp = NoInterp
    /\ retention = NoRetention
    /\ act = NoAct
    /\ tpl = NoTpl

NextPoll ==
    SchedulerOn({1}, MaxJobs, {TRUE})

SpecPoll == InitPoll /\ [][NextPoll]_vars

\* A backlog: the provider holds NumEvents events from the start and no
\* other arrives; every write succeeds.  Each event costs at most three
\* firings of the interval (the longest polling interval is two firings,
\* counted from a lastRunAt written up to half a firing late).
DrainTicks == 3 * NumEvents

InitDrain ==
    /\ clock = SchedulerIntervalSec
    /\ defs \in [Workflows -> WorkflowDefs]
    /\ \A w \in Workflows \ {1} : defs[w] = CHOOSE d \in WorkflowDefs : TRUE
    /\ wf = [w \in Workflows |->
               IF w = 1
               THEN [exists |-> TRUE, isActive |-> TRUE, lastRunAt |-> Null,
                     pollingInterval |-> GetPollingInterval(defs[w].triggerApp)]
               ELSE NoSnap]
    /\ inbox = NumEvents
    /\ processed = <<>>
    /\ jobs = <<>>
    /\ runs = <<>>
    /\ sweeps = [s \in SweepIds |->
                   IF s = 1
                   THEN [IdleSweep EXCEPT !.pc = "find",
                                          !.tick = SchedulerIntervalSec]
                   ELSE IdleSweep]
    /\ toggle = IdleToggle
    /\ faults = 0
    /\ quiet = [w \in Workflows |-> FALSE]
    /\ deduped = [w \in Workflows |-> FALSE]
    /\ DispatcherAtRest
    /\ EditorAtRest
    /\ interp = NoInterp
    /\ retention = NoRetention
    /\ act = NoAct
    /\ tpl = NoTpl

\* The interval fires once the sweep before it has ended and the worker
\* has finished the jobs queued so far.
DrainTick ==
    /\ \A j \in DOMAIN jobs : jobs[j].state = "completed"
    /\ TickWithin(1, DrainTicks)

NextDrain ==
    \/ TimePasses
    \/ DrainTick
    \/ PollFind(1)
    \/ \E l \in Listings(inbox) : PollCheck(1, TRUE, l)
    \/ PollEnqueue(1, TRUE, NumEvents)
    \/ PollUpdate(1)
    \/ ExecutorOk

\* The interval keeps firing and the sweep and the worker keep running.
SpecDrain == InitDrain /\ [][NextDrain]_vars /\ WF_vars(NextDrain)

\* The scheduler alone, its sweeps free to overlap.
NextSweeps ==
    SchedulerOn(SweepIds, MaxJobs, {TRUE})

SpecSweeps == Init /\ [][NextSweeps]_vars

\* The engine with the user activating and deactivating workflows.
NextToggle ==
    \/ SchedulerOn({1}, MaxRetryJobs, {TRUE})
    \/ ExecutorOk
    \/ Toggles

SpecToggle == Init /\ [][NextToggle]_vars

\* Activation on its own: the workflows exist, are not yet active, and
\* their trigger step names any app.
TriggerApps == {"gmail", "slack", "github", "webhook", "discord"}

ActivationDefs ==
    { [triggerApp |-> a, triggerId |-> "new_email", cond |-> "none",
       actionId |-> "send_webhook", cfg |-> {"url"}] : a \in TriggerApps }

InitActivate ==
    /\ clock = SchedulerIntervalSec
    /\ defs \in [Workflows -> ActivationDefs]
    /\ wf = [w \in Workflows |->
               [exists |-> TRUE, isActive |-> FALSE, lastRunAt |-> Null,
                pollingInterval |-> Null]]
    /\ inbox = 0
    /\ processed = <<>>
    /\ jobs = <<>>
    /\ runs = <<>>
    /\ sweeps = [s \in SweepIds |-> IdleSweep]
    /\ toggle = IdleToggle
    /\ faults = 0
    /\ quiet = [w \in Workflows |-> FALSE]
    /\ deduped = [w \in Workflows |-> FALSE]
    /\ DispatcherAtRest
    /\ EditorAtRest
    /\ interp = NoInterp
    /\ retention = NoRetention
    /\ act = NoAct
    /\ tpl = NoTpl

SpecActivate == InitActivate /\ [][Toggles]_vars

(* ---------------- executeAction on its own ---------------- *)

\* The config keys each case of executeAction reads.
KeysRead(actionId) ==
    CASE actionId = "send_channel_message" -> {"channel", "text"}
      [] actionId = "send_dm" -> {"userId", "text"}
      [] actionId = "update_message" -> {"channel", "messageTs", "text"}
      [] actionId = "add_reaction" -> {"channel", "messageTs", "reactionName"}
      [] actionId = "send_email" -> {"to"}
      [] actionId = "reply_to_email" -> {"messageId", "threadId"}
      [] actionId = "add_label_to_email" -> {"messageId", "labelIds"}
      [] actionId = "star_email" -> {"messageId"}
      [] actionId = "create_issue" -> {"owner", "repo"}
      [] actionId = "assign_issue" -> {"owner", "repo", "issue_number", "assignees"}
      [] actionId \in {"add_comment_to_issue", "close_issue"} ->
            {"owner", "repo", "issue_number"}
      [] actionId = "send_webhook" -> {"url"}
      [] OTHER -> {}

\* The calls of executeAction that are examined: every supported action,
\* every choice of present config keys, every environment.
ActInputs ==
    UNION {{[actionId |-> a, cfg |-> c, cred |-> e.cred, net |-> e.net,
             hasMeta |-> e.hasMeta, done |-> FALSE,
             result |-> ActionResult("failed", 0, 0, FALSE)] :
               c \in SUBSET KeysRead(a), e \in {x \in Envs : x.log = "ok"}} :
           a \in ActionIds}

InitAction ==
    /\ EngineInit
    /\ DispatcherAtRest
    /\ EditorAtRest
    /\ interp = NoInterp
    /\ retention = NoRetention
    /\ act \in ActInputs
    /\ tpl = NoTpl

\* executeAction is called with the input and returns.
CallExecuteAction ==
    /\ ~act.done
    /\ act' = [act EXCEPT !.done = TRUE,
                 !.result = ExecuteAction(act.actionId, act.cfg, act.cred,
                                          act.net, act.hasMeta)]
    /\ UNCHANGED <<engine, tpl, dispatcher, editor, interp, retention>>

NextAction == CallExecuteAction

SpecAction == InitAction /\ [][NextAction]_vars

(* ---------------- template substitution on its own ---------------- *)

\* JavaScript values: t = typeof / null, s = the string String.replace puts
\* in the output when the replacer returns the value.
Undefined == [t |-> "undefined", s |-> "undefined"]
NullValue == [t |-> "null", s |-> "null"]
ObjectValue == [t |-> "object", s |-> "[object Object]"]
JsValues == {Undefined, NullValue, ObjectValue,
             [t |-> "string", s |-> ""], [t |-> "string", s |-> "alice"],
             [t |-> "number", s |-> "0"], [t |-> "boolean", s |-> "false"]}

\* The trigger payload is a tree: PayloadNodes are the property paths it may
\* hold, a payload gives each its value.  Any other property is undefined.
PayloadNodes == {<<"trigger">>, <<"trigger", "from">>}
Payloads == [PayloadNodes -> JsValues]

\* current?.[key], current being the value reached at path prefix.
OptionalChain(payload, prefix, current, key) ==
    IF current.t = "object" /\ Append(prefix, key) \in DOMAIN payload
    THEN payload[Append(prefix, key)]
    ELSE Undefined

RECURSIVE ReducePath(_, _, _, _)
ReducePath(payload, prefix, current, rest) ==
    IF rest = <<>> THEN current
    ELSE ReducePath(payload, Append(prefix, Head(rest)),
                    OptionalChain(payload, prefix, current, Head(rest)),
                    Tail(rest))

\* getNestedValue(obj, path): path.split('.').reduce((c, k) => c?.[k], obj);
\* a path is modelled as the list of its keys, obj is an object.
GetNestedValue(payload, path) == ReducePath(payload, <<>>, ObjectValue, path)

\* A template is the list of the matches of /\{\{([^}]+)\}\}/g (k = "var", p
\* = the keys of the captured path) and of the text between them (k =
\* "text", p = the text).
TemplateTokens ==
    {[k |-> "text", p |-> <<"Hi ">>]} \cup
    {[k |-> "var", p |-> path] :
        path \in {<<"trigger">>, <<"trigger", "from">>, <<"x", "y">>,
                  <<"trigger", "from", "name">>}}

\* A replacer that keeps the match unless the value is truthy.
ReplacerTruthy(token, value) ==
    IF value.t \in {"undefined", "null"} \/ value.s \in {"", "0", "false"}
    THEN token
    ELSE [k |-> "text", p |-> <<value.s>>]

\* The replacer: value !== undefined && value !== null ? value : match.
Replacer(token, value) ==
    IF value.t # "undefined" /\ value.t # "null"
    THEN [k |-> "text", p |-> <<value.s>>]
    ELSE token

\* template.replace(regex, replacer).
Substitute(template, payload) ==
    [i \in DOMAIN template |->
        IF template[i].k = "var"
        THEN Replacer(template[i], GetNestedValue(payload, template[i].p))
        ELSE template[i]]

Templates == UNION {[1..n -> TemplateTokens] : n \in 1..MaxTemplateLen}

InitTemplate ==
    /\ EngineInit
    /\ DispatcherAtRest
    /\ EditorAtRest
    /\ interp = NoInterp
    /\ retention = NoRetention
    /\ act = NoAct
    /\ tpl \in [template : Templates, payload : Payloads, done : {FALSE},
                 out : {<<>>}]

\* The substitution is applied to the input.
CallSubstitute ==
    /\ ~tpl.done
    /\ tpl' = [tpl EXCEPT !.done = TRUE,
                          !.out = Substitute(tpl.template, tpl.payload)]
    /\ UNCHANGED <<engine, act, dispatcher, editor, interp, retention>>

NextTemplate == CallSubstitute

SpecTemplate == InitTemplate /\ [][NextTemplate]_vars

(* ---------------- the integration dispatcher on its own ---------------- *)

\* A cacheableMetadata table that gives every method ten minutes.
CacheTtlAllTen(app, method) ==
    IF <<app, method>> \in CacheKeys THEN 10 ELSE Null

\* cacheableMetadata of callGmailAPI / callSlackAPI, in minutes; Null for a
\* method that is not in the table.
CacheTtl(app, method) ==
    CASE app = "gmail" /\ method = "listLabels" -> 5
      [] app = "gmail" /\ method = "getProfile" -> 10
      [] app = "slack" /\ method \in {"listChannels", "listUsers"} -> 5
      [] app = "slack" /\ method \in {"getWorkspaceInfo", "getCurrentUser"} -> 10
      [] OTHER -> Null

\* cacheService.get(key): the stored value while its lifetime lasts, else a
\* miss.
CacheGet(key) ==
    IF cache[key].present /\ minute < cache[key].storedAt + cache[key].ttl
    THEN cache[key]
    ELSE NoEntry

\* cacheService.set(key, value, ttl).
CacheSet(key, ttl) ==
    [cache EXCEPT ![key] = [present |-> TRUE, app |-> key[1], method |-> key[2],
                            storedAt |-> minute, ttl |-> ttl]]

\* The state of a credential row as getValidToken sees it.
CredStateOf(row, refreshOk) ==
    IF ~row.exists THEN "none"
    ELSE IF ~(row.expiresAt # Null /\ row.expiresAt < minute) THEN "valid"
    ELSE IF refreshOk THEN "expired_refresh_ok"
    ELSE "expired_refresh_fail"

\* generateAccessToken on success: the row gets the new access token and
\* expiresAt = now + expires_in (the save is taken to succeed).
RefreshedRow(row, expiresIn) ==
    [row EXCEPT !.token = row.token + 1, !.expiresAt = minute + expiresIn]

\* A getValidToken that returns the token of the row it loaded first.
LoadedToken(loaded, stored, refreshed) == loaded.token

\* What getValidToken returns: the loaded row's token, or after a refresh
\* the token read again from the stored row.
ValidToken(loaded, stored, refreshed) ==
    IF refreshed THEN stored.token ELSE loaded.token

\* A dispatcher that looks into the cache before it loads the credential.
RouteCacheFirst(threw, cacheable, hit) ==
    IF cacheable /\ hit THEN "cache"
    ELSE IF threw THEN "throw"
    ELSE "adapter"

\* callGmailAPI / callSlackAPI after getValidToken: throw what it threw,
\* else return a cache hit, else call the adapter.
Route(threw, cacheable, hit) ==
    IF threw THEN "throw"
    ELSE IF cacheable /\ hit THEN "cache"
    ELSE "adapter"

\* callGmailAPI / callSlackAPI up to the adapter call.
DispatchStart(app, method, refreshOk, expiresIn) ==
    /\ call.pc = "idle"
    /\ cred[app].token < MaxTokens
    /\ LET row == cred[app]
           state == CredStateOf(row, refreshOk)
           t == GetValidToken(state)
           stored == IF t.refreshed THEN RefreshedRow(row, expiresIn) ELSE row
           cacheable == CacheTtl(app, method) # Null
           key == <<app, method>>
           known == key \in CacheKeys
           hit == known /\ CacheGet(key).present
           route == Route(t.threw, cacheable, hit)
           looked == route = "cache" \/ (route = "adapter" /\ cacheable)
       IN
       /\ cred' = [cred EXCEPT ![app] = stored]
       /\ refreshLogs' = IF t.refreshed THEN refreshLogs + 1 ELSE refreshLogs
       /\ call' = [IdleCall EXCEPT
             !.pc = IF route = "adapter" THEN "adapter" ELSE "done",
             !.app = app, !.method = method,
             !.noRow = ~row.exists,
             !.wasExpired = state \in {"expired_refresh_ok", "expired_refresh_fail"},
             !.refreshOk = refreshOk,
             !.refreshed = t.refreshed,
             !.oldToken = row.token,
             !.token = IF t.threw THEN Null
                       ELSE ValidToken(row, stored, t.refreshed),
             !.lookedUp = looked,
             !.hadEntry = looked /\ known /\ cache[key].present,
             !.entryAge = IF looked /\ known /\ cache[key].present
                          THEN minute - cache[key].storedAt ELSE Null,
             !.fromCache = route = "cache",
             !.error = IF route # "throw" THEN "none"
                       ELSE IF state = "none" THEN "not_connected"
                       ELSE "reauth",
             !.at = minute,
             !.result = IF route = "cache" THEN CacheGet(key) ELSE NoEntry]
    /\ UNCHANGED <<engine, act, tpl, minute, cache, editor, interp, retention>>

\* The adapter call returns (or throws); a cacheable result is stored.
DispatchAdapter(netOk) ==
    /\ call.pc = "adapter"
    /\ LET ttl == CacheTtl(call.app, call.method)
           key == <<call.app, call.method>> IN
       /\ cache' = IF netOk /\ ttl # Null THEN CacheSet(key, ttl) ELSE cache
       /\ call' = [call EXCEPT !.pc = "done", !.adapterCalled = TRUE,
                       !.error = IF netOk THEN "none" ELSE "transport",
                       !.result = IF netOk
                                  THEN [present |-> TRUE, app |-> call.app,
                                        method |-> call.method,
                                        storedAt |-> minute, ttl |-> Null]
                                  ELSE NoEntry]
    /\ UNCHANGED <<engine, act, tpl, minute, cred, refreshLogs, editor, interp, retention>>

\* The caller has the result; the next call may begin.
DispatchReturn ==
    /\ call.pc = "done"
    /\ call' = IdleCall
    /\ UNCHANGED <<engine, act, tpl, minute, cred, cache, refreshLogs, editor, interp, retention>>

\* deleteUserApp: the user disconnects the app; the row of the app and all
\* workflows of the user are deleted.
DeleteUserApp(app) ==
    /\ cred[app].exists
    /\ cred' = [cred EXCEPT ![app].exists = FALSE]
    /\ wf' = [w \in Workflows |-> [wf[w] EXCEPT !.exists = FALSE]]
    /\ UNCHANGED <<clock, defs, inbox, processed, jobs, runs, sweeps, toggle,
                   faults, quiet, deduped, act, tpl, minute, cache, call,
                   refreshLogs, editor, interp, retention>>

\* A minute passes.
MinutePasses ==
    /\ minute < MaxMinute
    /\ minute' = minute + 1
    /\ UNCHANGED <<engine, act, tpl, cred, cache, call, refreshLogs, editor, interp, retention>>

InitDispatch ==
    /\ EngineInit
    /\ defs = [w \in Workflows |-> CHOOSE d \in WorkflowDefs : TRUE]
    /\ DispatcherInit(ExpiresIn)
    /\ EditorAtRest
    /\ interp = NoInterp
    /\ retention = NoRetention
    /\ act = NoAct
    /\ tpl = NoTpl

NextDispatch ==
    \/ \E c \in DispCalls, refreshOk \in BOOLEAN, e \in ExpiresIn :
          DispatchStart(c[1], c[2], refreshOk, e)
    \/ \E netOk \in BOOLEAN : DispatchAdapter(netOk)
    \/ DispatchReturn
    \/ \E a \in DispApps : DeleteUserApp(a)
    \/ MinutePasses

SpecDispatch == InitDispatch /\ [][NextDispatch]_vars

(* ---------------- workflow create / update ---------------- *)

\* The tests createWorkflow and create make on the body before the name
\* lookup: a name, a non-empty steps array, a trigger step, an action step.
ValidBody(name, steps) ==
    /\ name # ""
    /\ Len(steps) > 0
    /\ \E i \in 1..Len(steps) : steps[i].type = "trigger"
    /\ \E i \in 1..Len(steps) : steps[i].type = "action"

\* find({where: {name, user}}): the rows of the user with that name.
FindByName(name) ==
    SelectSeq(table, LAMBDA row : row.name = name)

\* create: the test `existingWorkflow.length > 0` on the rows found.
NameFree(name) == Len(FindByName(name)) = 0

\* create, up to the name lookup: a body that fails a test or a name that
\* is taken raises BadRequestException.
CreateCall(r, name, steps) ==
    /\ pend[r].pc = "idle"
    /\ pend' = [pend EXCEPT ![r] =
                  IF ValidBody(name, steps) /\ NameFree(name)
                  THEN [IdleRequest EXCEPT !.pc = "checked", !.op = "create",
                                           !.name = name, !.steps = steps]
                  ELSE [IdleRequest EXCEPT !.pc = "rejected",
                                           !.op = "create"]]
    /\ UNCHANGED <<engine, act, tpl, dispatcher, table, interp, retention>>

\* create, from save(workflow) on: the row is inserted with the next id,
\* workflow_created is logged and activateWorkflow sets isActive.
CreateSave(r) ==
    /\ pend[r].pc = "checked" /\ pend[r].op = "create"
    /\ Len(table) < MaxRows
    /\ table' = Append(table, [id |-> Len(table) + 1, name |-> pend[r].name,
                               steps |-> pend[r].steps, isActive |-> TRUE])
    /\ pend' = [pend EXCEPT ![r] =
                  [IdleRequest EXCEPT !.pc = "done", !.op = "create",
                                      !.saved = Len(table) + 1]]
    /\ UNCHANGED <<engine, act, tpl, dispatcher, interp, retention>>

\* update, up to Object.assign: findOne(id, user) raises NotFoundException
\* without a row; the fields of the body replace those of the entity.
\* A field the body leaves out is name "" / steps <<>>.
UpdateCall(r, id, name, steps) ==
    /\ pend[r].pc = "idle"
    /\ pend' = [pend EXCEPT ![r] =
                  IF id > Len(table)
                  THEN [IdleRequest EXCEPT !.pc = "rejected", !.op = "update"]
                  ELSE [pc |-> "loaded", op |-> "update",
                        name |-> IF name = "" THEN table[id].name ELSE name,
                        steps |-> IF steps = <<>> THEN table[id].steps ELSE steps,
                        id |-> id, saved |-> Null]]
    /\ UNCHANGED <<engine, act, tpl, dispatcher, table, interp, retention>>

\* update: save(workflow) writes the entity's name and steps to the row.
UpdateSave(r) ==
    /\ pend[r].pc = "loaded" /\ pend[r].op = "update"
    /\ table' = [table EXCEPT ![pend[r].id].name = pend[r].name,
                              ![pend[r].id].steps = pend[r].steps]
    /\ pend' = [pend EXCEPT ![r] =
                  [IdleRequest EXCEPT !.pc = "done", !.op = "update",
                                      !.saved = pend[r].id]]
    /\ UNCHANGED <<engine, act, tpl, dispatcher, interp, retention>>

\* The response is sent.
RequestReturn(r) ==
    /\ pend[r].pc \in {"done", "rejected"}
    /\ pend' = [pend EXCEPT ![r] = IdleRequest]
    /\ UNCHANGED <<engine, act, tpl, dispatcher, table, interp, retention>>

NextEditor ==
    \E r \in RequestIds :
        \/ \E name \in Names, steps \in StepLists : CreateCall(r, name, steps)
        \/ CreateSave(r)
        \/ \E id \in 1..MaxRows, name \in Names, steps \in StepLists :
               UpdateCall(r, id, name, steps)
        \/ UpdateSave(r)
        \/ RequestReturn(r)

InitEditor ==
    /\ Init
    /\ defs = [w \in Workflows |-> CHOOSE d \in WorkflowDefs : TRUE]

SpecEditor == InitEditor /\ [][NextEditor]_vars

(* ---------------- the step interpreter on its own ---------------- *)

\* The steps arrays the interpreter is run on.  The literal of every if
\* string is 'order'.
Programs ==
    { <<ActionStep("2", "null")>>,
      <<TriggerStep("1"), ActionStep("2", "null")>>,
      <<TriggerStep("1"), ActionStep("2", "3"), ActionStep("3", "null")>>,
      <<TriggerStep("1"),
        ConditionStep("2", <<Clause("contains", "3", "null"),
                             Clause("none", "null", "4")>>),
        ActionStep("3", "null"), ActionStep("4", "null")>>,
      <<TriggerStep("1"),
        ConditionStep("2", <<Clause("none", "null", "4"),
                             Clause("contains", "3", "null")>>),
        ActionStep("3", "null"), ActionStep("4", "null")>>,
      <<TriggerStep("1"),
        ConditionStep("2", <<Clause("equals", "3", "null"),
                             Clause("not contains", "4", "null"),
                             Clause("unparsable", "1", "null")>>),
        ActionStep("3", "4"), ActionStep("4", "null")>>,
      <<TriggerStep("1"),
        ConditionStep("2", <<Clause("not equals", "3", "4")>>),
        ActionStep("3", "null"), ActionStep("4", "null")>>,
      <<TriggerStep("1"),
        ConditionStep("2", <<Clause("contains", "2", "null"),
                             Clause("none", "null", "9")>>),
        ActionStep("3", "null")>> }

\* The values getNestedValue finds at the path of an if string.
ActualValues ==
    {Undefined, NullValue,
     [t |-> "string", s |-> ""], [t |-> "string", s |-> "Order"],
     [t |-> "string", s |-> "my order"], [t |-> "string", s |-> "invoice"],
     [t |-> "number", s |-> "0"]}

\* JavaScript truthiness of a value.
Truthy(v) ==
    /\ v.t \notin {"undefined", "null"}
    /\ ~(v.t = "string" /\ v.s = "")
    /\ ~(v.t = "number" /\ v.s = "0")
    /\ ~(v.t = "boolean" /\ v.s = "false")

\* toString().toLowerCase()
ToLowerCase(str) == IF str = "Order" THEN "order" ELSE str

\* includes('order') / === 'order' on a lowered string
IncludesLiteral(str) == str \in {"order", "my order"}
EqualsLiteral(str) == str = "order"

\* evaluateConditionString: op is the operator the regex captured, or
\* "unparsable" when the string does not match.
EvaluateConditionString(op, v) ==
    CASE op = "contains" -> Truthy(v) /\ IncludesLiteral(ToLowerCase(v.s))
      [] op = "equals" -> Truthy(v) /\ EqualsLiteral(ToLowerCase(v.s))
      [] op = "not contains" -> ~Truthy(v) \/ ~IncludesLiteral(ToLowerCase(v.s))
      [] op = "not equals" -> ~Truthy(v) \/ ~EqualsLiteral(ToLowerCase(v.s))
      [] OTHER -> FALSE

RECURSIVE EvaluateConditionClauses(_, _)
\* evaluateCondition: the for loop over the clauses.  A clause with an if
\* string is tested and its else is not looked at; a clause without one
\* returns its else, if it has one, at once.
EvaluateConditionClauses(conditions, v) ==
    IF conditions = <<>> THEN "null"
    ELSE LET c == Head(conditions) IN
         IF c.if # "none"
         THEN IF EvaluateConditionString(c.if, v) THEN c.then
              ELSE EvaluateConditionClauses(Tail(conditions), v)
         ELSE IF c.else # "null" THEN c.else
              ELSE EvaluateConditionClauses(Tail(conditions), v)

\* stepMap.get(id): the last step with this id, if any.
HasStep(steps, id) == \E i \in 1..Len(steps) : steps[i].id = id
StepAt(steps, id) ==
    steps[CHOOSE i \in 1..Len(steps) :
             /\ steps[i].id = id
             /\ \A k \in 1..Len(steps) : steps[k].id = id => k <= i]

\* An interpreter that goes on to the action's next step.
FollowNext(step) == step.next

\* The step after an action: none, the loop breaks.
AfterAction(step) == "null"

InterpInputs ==
    [steps : Programs, value : ActualValues, pc : {"called"},
     current : {"null"}, log : {<<>>}, pass : {0}]

InitInterp ==
    /\ EngineInit
    /\ defs = [w \in Workflows |-> CHOOSE d \in WorkflowDefs : TRUE]
    /\ DispatcherAtRest
    /\ EditorAtRest
    /\ act = NoAct
    /\ tpl = NoTpl
    /\ interp \in InterpInputs
    /\ retention = NoRetention

\* executeWorkflowSteps up to the loop: without a trigger step it returns
\* the empty log, else it starts at step "2".
InterpBegin ==
    /\ interp.pc = "called"
    /\ interp' = IF \E i \in 1..Len(interp.steps) : interp.steps[i].type = "trigger"
                 THEN [interp EXCEPT !.pc = "loop", !.current = "2"]
                 ELSE [interp EXCEPT !.pc = "returned"]
    /\ UNCHANGED <<engine, act, tpl, dispatcher, editor, retention>>

\* executionLog.push: the loop has no bound on its passes; the model keeps
\* the first MaxVisits entries of the array and, in pass, the parity of the
\* number of condition steps visited.
Push(log, entry) ==
    IF Len(log) < MaxVisits THEN Append(log, entry) ELSE log

\* One pass of `while (currentStepId)`.  outcome = what executeAction and
\* the log writes around it do for an action step: the status returned, or
\* "raise".
InterpVisit(outcome) ==
    /\ interp.pc = "loop"
    /\ LET id == interp.current IN
       IF id = "null" \/ ~HasStep(interp.steps, id)
       THEN interp' = [interp EXCEPT !.pc = "returned"]
       ELSE LET step == StepAt(interp.steps, id) IN
            CASE step.type = "condition" ->
                   LET next == EvaluateConditionClauses(step.conditions,
                                                        interp.value) IN
                   interp' = [interp EXCEPT
                                !.current = next,
                                !.pass = 1 - @,
                                !.log = Push(@, [stepId |-> id,
                                                 type |-> "condition",
                                                 result |-> next])]
              [] step.type = "action" ->
                   IF outcome = "raise"
                   THEN interp' = [interp EXCEPT !.pc = "raised"]
                   ELSE interp' = [interp EXCEPT
                                     !.current = AfterAction(step),
                                     !.pc = IF AfterAction(step) = "null"
                                            THEN "returned" ELSE "loop",
                                     !.log = Push(@, [stepId |-> id,
                                                      type |-> "action",
                                                      result |-> outcome])]
              [] OTHER -> interp' = [interp EXCEPT !.pc = "returned"]
    /\ UNCHANGED <<engine, act, tpl, dispatcher, editor, retention>>

NextInterp ==
    \/ InterpBegin
    \/ \E outcome \in {"success", "failed", "raise"} : InterpVisit(outcome)

SpecInterp == InitInterp /\ [][NextInterp]_vars

\* The interpreter's loop keeps running while it has a step to visit.
SpecInterpFair == SpecInterp /\ WF_vars(NextInterp)

(* ---------------- the cleanup timer on its own ---------------- *)

\* The retention horizon of both cleanups, in days.
RetentionDays == 30

\* The days the model runs for, and the last day on which rows are written.
MaxDay == 32
MaxInsertDay == 1

\* A day goes by.
DayPasses ==
    /\ retention.day < MaxDay
    /\ retention' = [retention EXCEPT !.day = @ + 1]
    /\ UNCHANGED <<engine, act, tpl, dispatcher, editor, interp>>

\* The executor's processedTriggerRepo.save: a row with processedAt = now.
SaveProcessedRow ==
    /\ retention.day <= MaxInsertDay
    /\ retention' = [retention EXCEPT !.triggers = @ \cup {retention.day}]
    /\ UNCHANGED <<engine, act, tpl, dispatcher, editor, interp>>

\* createLog: a Log row with createdAt = now.
SaveLogRow ==
    /\ retention.day <= MaxInsertDay
    /\ retention' = [retention EXCEPT !.logs = @ \cup {retention.day}]
    /\ UNCHANGED <<engine, act, tpl, dispatcher, editor, interp>>

\* cleanupOldProcessedTriggers: delete where processedAt < now - 30 days.
\* It is private and nothing calls it: neither timer of startPolling does.
CleanupOldProcessedTriggers ==
    /\ retention' = [retention EXCEPT
                       !.triggers = {d \in @ : ~(d < retention.day - RetentionDays)}]
    /\ UNCHANGED <<engine, act, tpl, dispatcher, editor, interp>>

\* cleanupOldLogs, the callback of the cleanup timer (at start, then every
\* 24 hours): delete the Log rows with createdAt < now - 30 days.
CleanupOldLogs ==
    /\ retention' = [retention EXCEPT
                       !.logs = {d \in @ : ~(d < retention.day - RetentionDays)},
                       !.cleanups = 1 - @]
    /\ UNCHANGED <<engine, act, tpl, dispatcher, editor, interp>>

NextRetention ==
    \/ DayPasses
    \/ SaveProcessedRow
    \/ SaveLogRow
    \/ CleanupOldLogs

\* Time advances and the timer's callback runs whenever it is due.
SpecRetention ==
    /\ InitEditor
    /\ [][NextRetention]_vars
    /\ WF_vars(DayPasses)
    /\ WF_vars(CleanupOldLogs)

(* ---------------- claims ---------------- *)

RunsOf(j) == {r \in DOMAIN runs : runs[r].jobId = j}

SameEvent(a, b) ==
    /\ a.workflowId = b.workflowId
    /\ a.triggerId = b.triggerId
    /\ a.externalId = b.externalId

\* C1: for every (workflow, trigger type, external id) at most one run ends
\* with status success.
C1_AtMostOnceSuccess ==
    \A a, b \in DOMAIN runs :
        (runs[a].status = "success" /\ runs[b].status = "success"
            /\ SameEvent(runs[a], runs[b])) => a = b

\* C2: at no instant are two poll sweeps executing.
C2_NoConcurrentSweeps ==
    Cardinality({s \in SweepIds : sweeps[s].pc # "idle"}) <= 1

\* C3: the lastRunAt of a workflow never decreases, whichever of its writers
\* (scheduler, executor, activation) writes it.
C3_MonotonicLastRunAt ==
    [][\A w \in Workflows : wf'[w].lastRunAt >= wf[w].lastRunAt]_vars

\* C4: a job is attempted at most JobAttempts (3) times and so has at most 3
\* run rows, one per attempt that reached the creation of its row; the row of
\* attempt k (counted from 0) is created with retryCount = k.
C4_RetryBound ==
    /\ \A j \in DOMAIN jobs :
          /\ jobs[j].tries <= JobAttempts
          /\ jobs[j].attemptsMade <= JobAttempts
          /\ Cardinality(RunsOf(j)) <= JobAttempts
          /\ \A a, b \in RunsOf(j) : runs[a].attempt = runs[b].attempt => a = b
    /\ \A r \in DOMAIN runs :
          /\ runs[r].attempt \in 0 .. (JobAttempts - 1)
          /\ runs[r].status = "running" => runs[r].retryCount = runs[r].attempt

\* C4 witness: a job has used up its attempts and each of them left a row.
C4_Witness ==
    \E j \in DOMAIN jobs :
        /\ jobs[j].state = "failed"
        /\ jobs[j].tries = JobAttempts
        /\ Cardinality(RunsOf(j)) = JobAttempts
        /\ \A r \in RunsOf(j) : runs[r].status = "failed"

\* C5: when deactivate(w) returns, w is inactive and no job of w is waiting
\* or delayed in the queue.
C5_DeactivationClearsQueue ==
    [][(toggle.pc = "saved" /\ toggle.op = "deactivate" /\ toggle'.pc = "idle")
        => /\ ~wf'[toggle.w].isActive
           /\ \A j \in DOMAIN jobs' :
                 jobs'[j].workflowId = toggle.w
                    => jobs'[j].state \notin {"waiting", "delayed"}]_vars

\* C6: between the return of deactivate(w) and the next activation of w, no
\* run row of w is created.
C6_NoRunsAfterDeactivation ==
    [][\A w \in Workflows :
          (quiet[w] /\ quiet'[w] /\ Len(runs') > Len(runs))
             => runs'[Len(runs')].workflowId # w]_vars

\* C7: once a run row holds status success or failed, its status, error,
\* finishedAt and retryCount are never written again.
C7_RunImmutable ==
    [][\A r \in DOMAIN runs :
          runs[r].status \in {"success", "failed"}
             => /\ runs'[r].status = runs[r].status
                /\ runs'[r].error = runs[r].error
                /\ runs'[r].finishedAt = runs[r].finishedAt
                /\ runs'[r].retryCount = runs[r].retryCount]_vars

\* C8: when the third-party call of an action fails in transport, the
\* interpreter raises: the attempt goes to the failure handler and its run
\* row is not written success.
C8_TransportFailureRaises ==
    \A j \in DOMAIN jobs :
        (jobs[j].state = "active" /\ jobs[j].pc \in {"post", "record", "catch"}
            /\ jobs[j].res.callFailed)
        => /\ jobs[j].pc = "catch"
           /\ runs[jobs[j].runId].status # "success"

\* C9: when an action needs a credential that is expired and cannot be
\* refreshed, the user is emailed and the run of the attempt does not end
\* with status success.
C9_ReauthFailsRun ==
    \A j \in DOMAIN jobs :
        (jobs[j].state = "active" /\ jobs[j].pc \in {"post", "record", "catch"}
            /\ jobs[j].res.reauth)
        => /\ jobs[j].res.emails >= 1
           /\ runs[jobs[j].runId].status # "success"

\* The Required config column of the action table.
RequiredConfig(actionId) ==
    CASE actionId = "send_channel_message" -> {"channel"}
      [] actionId = "send_dm" -> {}
      [] actionId = "update_message" -> {"channel", "messageTs", "text"}
      [] actionId = "add_reaction" -> {"channel", "messageTs", "reactionName"}
      [] actionId = "send_email" -> {"to"}
      [] actionId = "reply_to_email" -> {"messageId", "threadId"}
      [] actionId = "add_label_to_email" -> {"messageId", "labelIds"}
      [] actionId = "star_email" -> {"messageId"}
      [] actionId = "create_issue" -> {"owner", "repo"}
      [] actionId \in {"add_comment_to_issue", "close_issue"} ->
            {"owner", "repo", "issue_number"}
      [] actionId = "assign_issue" ->
            {"owner", "repo", "issue_number", "assignees"}
      [] actionId = "send_webhook" -> {"url"}
      [] OTHER -> {}

\* C10: for every supported action, a call whose config lacks a required
\* field returns status failed, raises nothing and makes no third-party call.
C10_ConfigFailureReturnsFailed ==
    (act.done /\ ~(RequiredConfig(act.actionId) \subseteq act.cfg))
        => /\ act.result.status = "failed"
           /\ ~act.result.raised
           /\ act.result.calls = 0

JobKey(job) == ProcessedKey(job.workflowId, job.triggerId, job.externalId)

HasRow(key) == \E i \in DOMAIN processed : processed[i] = key

\* C11: a ProcessedTrigger row is written only by an attempt whose run row
\* holds status success and keeps it; an attempt that ends failed writes
\* none, so after the terminal failure the event is still unprocessed.
C11_RecordedOnlyOnSuccess ==
    /\ [](\A i \in DOMAIN processed : \E r \in DOMAIN runs :
            runs[r].status = "success" /\ JobKey(runs[r]) = processed[i])
    /\ [][processed' # processed =>
            \E j \in ActiveJobs :
                /\ jobs[j].pc = "record"
                /\ runs[jobs[j].runId].status = "success"
                /\ runs'[jobs[j].runId].status = "success"
                /\ processed' = Append(processed, JobKey(jobs[j]))
                /\ jobs'[j].state = "completed"]_vars

\* C11 witness: the third attempt has failed and the event has no row.
C11_Witness ==
    \E j \in DOMAIN jobs :
        /\ jobs[j].state = "failed"
        /\ jobs[j].attemptsMade = JobAttempts
        /\ \E r \in RunsOf(j) : runs[r].attempt = JobAttempts - 1
                                 /\ runs[r].status = "failed"
        /\ ~HasRow(JobKey(jobs[j]))
        /\ FilterUnprocessed(jobs[j].workflowId, jobs[j].triggerId,
                             <<jobs[j].externalId>>) = <<jobs[j].externalId>>

C13_RecordIdempotent ==
    /\ \A i, k \in DOMAIN processed : processed[i] = processed[k] => i = k
    /\ \A j \in DOMAIN jobs :
          jobs[j].state = "completed"
             => /\ HasRow(JobKey(jobs[j]))
                /\ \E r \in RunsOf(j) : runs[r].status = "success"
                                         /\ runs[r].attempt = jobs[j].tries - 1

\* C13 witness: two jobs of the same event have both completed; the second
\* insert was a duplicate and one row exists.
C13_Witness ==
    \E a, b \in DOMAIN jobs :
        /\ a # b
        /\ JobKey(jobs[a]) = JobKey(jobs[b])
        /\ jobs[a].state = "completed" /\ jobs[b].state = "completed"
        /\ Cardinality({i \in DOMAIN processed : processed[i] = JobKey(jobs[a])}) = 1

\* C14: the sweep of one firing of the interval adds at most one job per
\* workflow, however many unprocessed events its detector returned.
C14_OneEnqueuePerTick ==
    \A a, b \in DOMAIN jobs :
        (jobs[a].workflowId = jobs[b].workflowId /\ jobs[a].tick = jobs[b].tick)
           => a = b

\* C14 witness: a sweep whose detector returned two unprocessed events has
\* finished and has added one job, for the newest event.
C14_Witness ==
    \E j \in DOMAIN jobs :
        /\ jobs[j].externalId = 2
        /\ processed = <<>>
        /\ \A s \in SweepIds : sweeps[s].tick # jobs[j].tick
        /\ Cardinality({k \in DOMAIN jobs : jobs[k].tick = jobs[j].tick}) = 1

\* C15: two jobs of the same workflow are never being processed at the
\* same time.
C15_NoOverlapSameWorkflow ==
    \A a, b \in ActiveJobs : jobs[a].workflowId = jobs[b].workflowId => a = b

\* The event of the job makes the condition of its workflow take no branch.
NoBranch(job) ==
    defs[job.workflowId].cond = "if" /\ ~Important(job.externalId)

DottedLookup(payload, path) ==
    IF /\ path \in DOMAIN payload
       /\ \A n \in 1 .. (Len(path) - 1) :
             /\ SubSeq(path, 1, n) \in DOMAIN payload
             /\ payload[SubSeq(path, 1, n)].t = "object"
    THEN payload[path]
    ELSE Undefined

\* C17: in the output every {{path}} whose lookup is undefined or null is
\* the literal {{path}}, every {{path}} whose lookup is defined is that
\* value, and the text around them is unchanged.
C17_TemplateFallback ==
    tpl.done =>
        /\ DOMAIN tpl.out = DOMAIN tpl.template
        /\ \A i \in DOMAIN tpl.template :
              LET token == tpl.template[i]
                  value == DottedLookup(tpl.payload, token.p) IN
              IF token.k = "var" /\ value.t \notin {"undefined", "null"}
              THEN tpl.out[i] = [k |-> "text", p |-> <<value.s>>]
              ELSE tpl.out[i] = token

\* C17 witness: a template with a missing path and a path whose value is
\* the empty string has been substituted.
C17_Witness ==
    /\ tpl.done
    /\ \E i, j \in DOMAIN tpl.template :
          /\ tpl.template[i] = [k |-> "var", p |-> <<"x", "y">>]
          /\ tpl.out[i] = tpl.template[i]
          /\ tpl.template[j] = [k |-> "var", p |-> <<"trigger", "from">>]
          /\ tpl.out[j] = [k |-> "text", p |-> <<"">>]

\* C18: a dispatcher call for an app without a credential row fails with
\* the not-connected error, and neither looks into the cache nor calls the
\* adapter, also when the cache holds a live entry for the call.
C18_NotConnected ==
    (call.pc # "idle" /\ call.noRow)
        => /\ call.pc = "done"
           /\ call.error = "not_connected"
           /\ ~call.lookedUp
           /\ ~call.fromCache
           /\ ~call.adapterCalled

\* C18 witness: such a call has failed while the cache holds a live entry
\* for its key.
C18_Witness ==
    /\ call.pc = "done" /\ call.noRow /\ call.error = "not_connected"
    /\ <<call.app, call.method>> \in CacheKeys
    /\ CacheGet(<<call.app, call.method>>).present

SpecTtl(app, method) ==
    CASE app = "gmail" /\ method = "listLabels" -> 5
      [] app = "gmail" /\ method = "getProfile" -> 10
      [] app = "slack" /\ method \in {"listChannels", "listUsers"} -> 5
      [] app = "slack" /\ method \in {"getWorkspaceInfo", "getCurrentUser"} -> 10
      [] app = "github" /\ method = "listRepos" -> 5
      [] app = "github" /\ method = "getCurrentUser" -> 10
      [] OTHER -> Null

StepIdsOf(steps) == {steps[i].id : i \in 1..Len(steps)}

\* The then / else / next targets a steps array names.
TargetsOf(steps) ==
    UNION {{steps[i].next}
           \cup {steps[i].conditions[k].then : k \in 1..Len(steps[i].conditions)}
           \cup {steps[i].conditions[k].else : k \in 1..Len(steps[i].conditions)}
           : i \in 1..Len(steps)}

\* C21: no two workflow rows of the user have the same name, whatever the
\* create and update requests and their interleaving.
C21_UniqueNamePerUser ==
    \A i, k \in 1..Len(table) : table[i].name = table[k].name => i = k

\* C22: every target of every saved workflow is null or the id of a step of
\* the same workflow.
C22_StepGraphClosure ==
    \A i \in 1..Len(table) :
        TargetsOf(table[i].steps) \subseteq StepIdsOf(table[i].steps) \cup {"null"}

\* The events of the provider without a ProcessedTrigger row for (w, t).
Unprocessed(w, t) == {e \in 1..inbox : ~HasRow(ProcessedKey(w, t, e))}

\* The step of sweep s that checks the head of its list.
ChecksHead(s) == sweeps[s].pc = "next" /\ sweeps'[s] # sweeps[s]

\* C23: when a sweep checks a due workflow and the provider holds no
\* unprocessed event for it, the check writes lastRunAt = now and adds no
\* job.
C23_EmptyPollSetsLastRunAt ==
    [][\A s \in SweepIds :
         ChecksHead(s) =>
            LET row == Head(sweeps[s].todo) IN
            (/\ CalculateNextRunAt(row) <= clock
             /\ Unprocessed(row.id, defs[row.id].triggerId) = {})
               => /\ wf'[row.id].lastRunAt = clock
                  /\ jobs' = jobs]_vars

\* The due rule on the row a sweep has loaded.
IsDue(row) ==
    \/ row.lastRunAt = Null
    \/ row.lastRunAt + row.pollingInterval <= clock

\* The detector was invoked in a check with this outcome.
DetectorInvoked(outcome) == outcome \in {"failed", "empty", "fired"}

\* C24: a sweep invokes the detector of a workflow it has loaded exactly
\* when the workflow is due; the check of a workflow that is not due fires
\* nothing, adds no job and writes no lastRunAt.
C24_DueRule ==
    [][\A s \in SweepIds :
         ChecksHead(s) =>
            LET row == Head(sweeps[s].todo)
                seen == sweeps'[s].done IN
            /\ ~IsDue(row)
                  => /\ sweeps'[s].pc # "fired"
                     /\ jobs' = jobs
                     /\ wf' = wf
            /\ sweeps'[s].pc # "idle"
                  => /\ seen[Len(seen)].id = row.id
                     /\ DetectorInvoked(seen[Len(seen)].outcome) <=> IsDue(row)]_vars

\* C24 witness: a sweep has passed over a workflow that is not due yet and
\* is checking the next one.
C24_Witness ==
    \E s \in SweepIds :
        \E i \in 1..Len(sweeps[s].done) :
            /\ sweeps[s].done[i].outcome = "skipped"
            /\ wf[sweeps[s].done[i].id].lastRunAt # Null
            /\ wf[sweeps[s].done[i].id].lastRunAt
                 + wf[sweeps[s].done[i].id].pollingInterval > clock
            /\ i < Len(sweeps[s].done)

IdsOf(list) == [i \in 1..Len(list) |-> list[i].id]

\* C26: a workflow whose detector raised gets no job from that sweep, and
\* the sweep goes on: it checks every workflow it loaded, one after the
\* other, and ends only after the last one.
C26_DetectorFailureIsolated ==
    /\ [](\A s \in SweepIds :
            /\ \A i \in 1..Len(sweeps[s].done) :
                  sweeps[s].done[i].outcome = "failed"
                     => \A j \in DOMAIN jobs :
                           jobs[j].workflowId = sweeps[s].done[i].id
                              => jobs[j].tick # sweeps[s].tick
            /\ sweeps[s].pc \in {"next", "fired", "queued"}
                  => IdsOf(sweeps[s].done)
                       \o IdsOf(IF sweeps[s].pc = "next" THEN sweeps[s].todo
                                ELSE Tail(sweeps[s].todo))
                     = [w \in Workflows |-> w])
    /\ [][\A s \in SweepIds :
            (sweeps[s].pc \in {"next", "fired", "queued"}
               /\ sweeps'[s].pc = "idle")
               => Len(sweeps[s].todo) = 1]_vars

\* C26 witness: the detector of workflow 1 raised while events were there,
\* and the same sweep then fired for workflow 2.
C26_Witness ==
    /\ inbox > 0
    /\ sweeps[1].pc = "queued"
    /\ sweeps[1].done = <<[id |-> 1, outcome |-> "failed"],
                          [id |-> 2, outcome |-> "fired"]>>
    /\ \E j \in DOMAIN jobs : jobs[j].workflowId = 2
                               /\ jobs[j].tick = sweeps[1].tick
    /\ \A j \in DOMAIN jobs : jobs[j].workflowId # 1

\* The step in which job j leaves the catch block.
LeavesCatch(j) ==
    /\ j \in DOMAIN jobs
    /\ jobs[j].pc = "catch"
    /\ jobs'[j] # jobs[j]

C28_MissingWorkflowIsTerminal ==
    [][\A j \in DOMAIN jobs :
          (/\ jobs[j].state \in {"waiting", "delayed"}
           /\ ~wf[jobs[j].workflowId].exists
           /\ jobs'[j] # jobs[j])
             => /\ runs' = runs
                /\ jobs'[j].state = "failed"]_vars

\* The clauses of a list with an if string that holds for the value.
TrueIfs(conditions, v) ==
    {i \in 1..Len(conditions) :
        conditions[i].if # "none" /\ EvaluateConditionString(conditions[i].if, v)}

\* The clauses of a list that carry an else target.
Elses(conditions) == {i \in 1..Len(conditions) : conditions[i].else # "null"}

Least(S) == CHOOSE i \in S : \A k \in S : i <= k

\* C29: the next id a condition step yields is the then of the first if
\* clause, in list order, that holds; the else of the list only when no if
\* clause holds, wherever the else stands; null when neither.
C29_ClauseOrder ==
    \A n \in 1..Len(interp.log) :
        interp.log[n].type = "condition" =>
           LET conditions == StepAt(interp.steps, interp.log[n].stepId).conditions
               hold == TrueIfs(conditions, interp.value) IN
           interp.log[n].result =
              IF hold # {} THEN conditions[Least(hold)].then
              ELSE IF Elses(conditions) # {}
                   THEN conditions[Least(Elses(conditions))].else
                   ELSE "null"

\* The action entries of an execution log.
ActionEntries(log) == {n \in 1..Len(log) : log[n].type = "action"}

C31_PollingIntervalDerivation ==
    LET expected(app) == CASE app = "gmail" -> 60
                           [] app = "slack" -> 30
                           [] app = "github" -> 60
                           [] app = "webhook" -> 0
                           [] OTHER -> 60
    IN  \A w \in Workflows :
            wf[w].isActive =>
                wf[w].pollingInterval = expected(defs[w].triggerApp)

\* A ProcessedTrigger row written on day d is older than the horizon.
OldRow(d) == d \in retention.triggers /\ d < retention.day - RetentionDays

\* C32: every ProcessedTrigger row older than 30 days is eventually deleted
\* by the background cleanup, and a row not older than 30 days is never
\* deleted.
C32_ProcessedTriggerRetention ==
    /\ \A d \in 0..MaxDay : OldRow(d) ~> (d \notin retention.triggers)
    /\ [][\A d \in retention.triggers :
             ~(d < retention.day - RetentionDays) => d \in retention'.triggers]_vars

\* C33: after deactivate(w) has returned and until the next activation of w,
\* no write of the workflow row, the executor's at the end of a run
\* included, changes anything but lastRunAt: isActive stays false.
C33_DeactivationNotUndone ==
    [][\A w \in Workflows :
          (quiet[w] /\ quiet'[w] /\ wf[w].exists)
             => wf'[w] = [wf[w] EXCEPT !.lastRunAt = wf'[w].lastRunAt]]_vars

\* C34: on every steps array and payload, condition steps whose targets
\* point back to a condition step included, executeWorkflowSteps returns or
\* raises after finitely many visits.
C34_InterpreterTerminates ==
    <>(interp.pc \in {"returned", "raised"})

\* C35: a run row holds status running only while the attempt that created
\* it is in progress: once that attempt has ended, by returning or by
\* throwing to the queue, the row holds success or failed.
C35_NoRunStuckRunning ==
    \A r \in DOMAIN runs :
        runs[r].status = "running"
           => /\ jobs[runs[r].jobId].state = "active"
              /\ jobs[runs[r].jobId].runId = r

\* The run's action step returned status failed without raising.
ActionFailedQuietly(r) ==
    \E i \in DOMAIN runs[r].executionLog :
        /\ runs[r].executionLog[i].type = "action"
        /\ runs[r].executionLog[i].result = "failed"

C37_EnqueueFailureKeepsClock ==
    [][\A s \in SweepIds :
          /\ (sweeps[s].pc = "fired" /\ sweeps'[s].pc \notin {"fired", "queued"})
                => /\ wf' = wf
                   /\ processed' = processed
                   /\ jobs' = jobs
          /\ (sweeps'[s] # sweeps[s] /\ wf' # wf)
                => /\ sweeps[s].pc = "queued"
                   /\ \E j \in DOMAIN jobs :
                         /\ jobs[j].workflowId = Head(sweeps[s].todo).id
                         /\ jobs[j].externalId = sweeps[s].trig
                         /\ jobs[j].tick = sweeps[s].tick]_vars

\* C37 witness: the enqueue of the only event failed in the first sweep
\* (the one fault so far, before any worker took a job); the sweep of the
\* next tick detected the event again and has queued it, lastRunAt still
\* unwritten.
C37_Witness ==
    /\ faults = 1
    /\ inbox = 1
    /\ runs = <<>>
    /\ processed = <<>>
    /\ Len(jobs) = 1
    /\ jobs[1].tries = 0
    /\ jobs[1].externalId = 1
    /\ jobs[1].tick > SchedulerIntervalSec
    /\ \E s \in SweepIds : sweeps[s].pc = "queued" /\ sweeps[s].trig = 1
    /\ wf[1].lastRunAt = Null

C39_LogAgreesWithStatus ==
    \A r \in DOMAIN runs :
        /\ runs[r].status = "failed" => ~runs[r].completedLogged
        /\ runs[r].status = "success" => ~runs[r].failLogged
        /\ (runs[r].completedLogged \/ runs[r].failLogged)
              => runs[r].startedLogged

====
